---- MODULE Spec2Model ----
(***************************************************************************)
(* Timer-based anti-debugging probe (debugger/GetTickCount.rs).            *)
(*                                                                         *)
(* is_being_debugged(threshold_ms) captures a monotonic start instant,     *)
(* sleeps for 10 ms, reads the elapsed time in whole milliseconds and      *)
(* reports "debugged" when the elapsed time is strictly greater than the   *)
(* threshold.  main calls it once and prints one verdict line.             *)
(*                                                                         *)
(* Time is kept as the standard library keeps it: an Instant and a         *)
(* Duration are (secs, nanos) pairs with nanos < 10^9, as_millis truncates *)
(* towards zero.  thread::sleep guarantees AT LEAST the requested time;    *)
(* the thread may oversleep, and it may be stalled between any two         *)
(* statements (scheduler, single-stepping in a debugger).                  *)
(***************************************************************************)
EXTENDS Integers, Sequences, FiniteSets, TLC

VARIABLES
    pc,            \* position of the single thread in main / is_being_debugged
    threshold_ms,  \* the argument main passes to is_being_debugged
    clock,         \* the monotonic clock, an Instant
    start_time,    \* <<>> until `let start_time = Instant::now()`, then <<Instant>>
    elapsed_time,  \* <<>> until `let elapsed_time = ...as_millis()`, then <<ms>>
    result,        \* <<>> until the probe returns, then <<BOOLEAN>>
    output,        \* standard output of the current run: a sequence of lines
    stalls,        \* number of stalls the thread has suffered in this run
    runs,          \* number of program runs started so far
    prev           \* the probe call of the previous run: <<>> or <<call record>>

vars == <<pc, threshold_ms, clock, start_time, elapsed_time, result, output,
          stalls, runs, prev>>

----------------------------------------------------------------------------
(* Bounds of the model *)

\* a thread may oversleep by up to this many whole milliseconds
MaxOversleepMs == 1

\* stalls (preemption, debugger breakpoints) per run
MaxStalls == 1

\* program runs per behaviour
MaxRuns == 2

----------------------------------------------------------------------------
(* Program constants *)

\* Duration::from_millis(10), line 18
SleepMs == 10

\* let threshold_ms = 5000, line 32
MainThresholdMs == 5000

NANOS_PER_SEC == 1000000000

NANOS_PER_MILLI == 1000000

MILLIS_PER_SEC == 1000

\* The thresholds a build may be configured with ("Set your threshold"):
\* the one in the source, and values below, at and just above the delay.
Thresholds == {0, 5, SleepMs, SleepMs + 1, MainThresholdMs}

----------------------------------------------------------------------------
(* std::time as the probe uses it *)

\* Duration::from_millis
from_millis(ms) ==
    [secs  |-> ms \div MILLIS_PER_SEC,
     nanos |-> (ms % MILLIS_PER_SEC) * NANOS_PER_MILLI]

\* Duration::as_millis: whole milliseconds, truncating
as_millis(d) == d.secs * MILLIS_PER_SEC + d.nanos \div NANOS_PER_MILLI

\* Duration + Duration
DurAdd(a, b) ==
    IF a.nanos + b.nanos >= NANOS_PER_SEC
    THEN [secs |-> a.secs + b.secs + 1, nanos |-> a.nanos + b.nanos - NANOS_PER_SEC]
    ELSE [secs |-> a.secs + b.secs, nanos |-> a.nanos + b.nanos]

\* Instant + Duration (the clock moving forward)
InstantAdd(i, d) == DurAdd(i, d)

\* Instant::elapsed = Instant::now() - self, with borrow from the seconds
DurationSince(later, earlier) ==
    IF later.nanos >= earlier.nanos
    THEN [secs |-> later.secs - earlier.secs, nanos |-> later.nanos - earlier.nanos]
    ELSE [secs  |-> later.secs - earlier.secs - 1,
          nanos |-> later.nanos + NANOS_PER_SEC - earlier.nanos]

\* one nanosecond short of a millisecond: the most as_millis can truncate
AlmostOneMilli == [secs |-> 0, nanos |-> NANOS_PER_MILLI - 1]

\* by how much thread::sleep may overshoot the requested duration
Oversleeps ==
    {from_millis(k) : k \in 0..MaxOversleepMs} \cup {AlmostOneMilli}

\* how long a stall may hold the thread: long enough to carry the elapsed
\* time to main's threshold exactly, or one millisecond past it
StallDurations ==
    { from_millis(MainThresholdMs - SleepMs),
      from_millis(MainThresholdMs - SleepMs + 1) }

\* clock readings at process start; the second one makes the sleep cross a
\* second boundary, so that Instant arithmetic carries and borrows
StartInstants ==
    { [secs |-> 0, nanos |-> 0],
      [secs |-> 0, nanos |-> NANOS_PER_SEC - NANOS_PER_MILLI] }

----------------------------------------------------------------------------
(* The lines the program prints: a format string and its arguments *)

WarningLine(e) ==
    [text |-> "Routine took too long to execute: {} ms, possibly being debugged.",
     args |-> <<e>>]

DetectedLine == [text |-> "Debugging detected!", args |-> <<>>]

NotDetectedLine == [text |-> "No debugging detected.", args |-> <<>>]

----------------------------------------------------------------------------
(* is_being_debugged, statement by statement *)

\* Variant: the delay built with Duration::from_micros, a thousand times
\* shorter than intended.
SleepDurationMicros ==
    [secs  |-> SleepMs \div (MILLIS_PER_SEC * MILLIS_PER_SEC),
     nanos |-> (SleepMs % (MILLIS_PER_SEC * MILLIS_PER_SEC)) * MILLIS_PER_SEC]

\* the duration handed to thread::sleep (line 18)
SleepDuration == from_millis(SleepMs)

\* Variant: Duration::subsec_millis in place of as_millis, which drops the
\* whole seconds of the measurement.
ElapsedSubsecMillis(now, start) ==
    DurationSince(now, start).nanos \div NANOS_PER_MILLI

\* start_time.elapsed().as_millis() (line 20)
ElapsedMillis(now, start) == as_millis(DurationSince(now, start))

\* Variant: a non-strict comparison.
ExceedsOrEquals(e, t) == e >= t

\* Variant: the comparison turned around.
ExceedsInverted(e, t) == e < t

\* the comparison of line 21
Exceeds(e, t) == e > t

\* Variant: the warning printed before the comparison, on every call.
ProbePrintsAlways(e, t) == <<WarningLine(e)>>

\* Variant: the warning left out.
ProbePrintsNothing(e, t) == <<>>

\* what the probe prints for a measurement (lines 21-27): the warning when
\* the threshold is exceeded, nothing otherwise
ProbePrints(e, t) == IF Exceeds(e, t) THEN <<WarningLine(e)>> ELSE <<>>

\* Variant: the verdict taken from the nominal delay, not the measurement.
ProbeReturnsNominal(e, t) == SleepMs > t

\* the value the probe returns (lines 26 and 28)
ProbeReturns(e, t) == Exceeds(e, t)

\* Variant: the two branches of main exchanged.
VerdictLineSwapped(b) == IF b THEN NotDetectedLine ELSE DetectedLine

\* Variant: main ignoring the probe's result.
VerdictLineIgnoresResult(b) == NotDetectedLine

\* the line main prints for a verdict (lines 33-37)
VerdictLine(b) == IF b THEN DetectedLine ELSE NotDetectedLine

\* Variant: a busy-wait on the stale measurement while the threshold is not
\* exceeded.
AfterCompareSpin(e, t) == IF Exceeds(e, t) THEN "returned" ELSE "compare"

\* where control goes after the comparison: straight to the return
AfterCompare(e, t) == "returned"

TypeOK ==
    /\ pc \in {"main", "probe", "sleeping", "woke", "compare", "returned", "done"}
    /\ threshold_ms \in Thresholds
    /\ Len(start_time) <= 1
    /\ Len(elapsed_time) <= 1
    /\ Len(result) <= 1
    /\ stalls \in 0..MaxStalls
    /\ runs \in 1..MaxRuns

Init ==
    /\ pc = "main"
    /\ threshold_ms \in Thresholds
    /\ clock \in StartInstants
    /\ start_time = <<>>
    /\ elapsed_time = <<>>
    /\ result = <<>>
    /\ output = <<>>
    /\ stalls = 0
    /\ runs = 1
    /\ prev = <<>>

\* main: let threshold_ms = ...; is_being_debugged(threshold_ms)  (lines 32-33)
MainCall ==
    /\ pc = "main"
    /\ pc' = "probe"
    /\ UNCHANGED <<threshold_ms, clock, start_time, elapsed_time, result,
                   output, stalls, runs, prev>>

\* let start_time = Instant::now();  (line 15)
ProbeStart ==
    /\ pc = "probe"
    /\ start_time' = <<clock>>
    /\ pc' = "sleeping"
    /\ UNCHANGED <<threshold_ms, clock, elapsed_time, result, output, stalls,
                   runs, prev>>

\* std::thread::sleep(Duration::from_millis(10));  (line 18)
\* returns once at least the requested duration has passed
Sleep ==
    /\ pc = "sleeping"
    /\ \E over \in Oversleeps :
         clock' = InstantAdd(clock, DurAdd(SleepDuration, over))
    /\ pc' = "woke"
    /\ UNCHANGED <<threshold_ms, start_time, elapsed_time, result, output,
                   stalls, runs, prev>>

\* let elapsed_time = start_time.elapsed().as_millis();  (line 20)
ReadElapsed ==
    /\ pc = "woke"
    /\ elapsed_time' = <<ElapsedMillis(clock, start_time[1])>>
    /\ pc' = "compare"
    /\ UNCHANGED <<threshold_ms, clock, start_time, result, output, stalls,
                   runs, prev>>

\* if elapsed_time > threshold_ms { println!(...); return true; } false
\* (lines 21-28)
Compare ==
    /\ pc = "compare"
    /\ LET e == elapsed_time[1]
           t == threshold_ms
       IN  /\ output' = output \o ProbePrints(e, t)
           /\ result' = <<ProbeReturns(e, t)>>
           /\ pc' = AfterCompare(e, t)
    /\ UNCHANGED <<threshold_ms, clock, start_time, elapsed_time, stalls, runs,
                   prev>>

\* main: if ... { println!("Debugging detected!") } else
\*       { println!("No debugging detected.") }  (lines 33-37)
MainPrint ==
    /\ pc = "returned"
    /\ output' = Append(output, VerdictLine(result[1]))
    /\ pc' = "done"
    /\ UNCHANGED <<threshold_ms, clock, start_time, elapsed_time, result,
                   stalls, runs, prev>>

\* The call the current run has completed, as its caller observes it:
\* the measurement, the argument, the value returned and the lines printed
\* from within the probe (main's verdict line is the last line of a
\* finished run's output).
ThisCall ==
    [elapsed   |-> elapsed_time[1],
     threshold |-> threshold_ms,
     verdict   |-> result[1],
     printed   |-> SubSeq(output, 1, Len(output) - 1)]

\* The thread is held between two statements while the clock keeps running.
Stall ==
    /\ pc \in {"probe", "sleeping", "woke"}
    /\ stalls < MaxStalls
    /\ \E d \in StallDurations : clock' = InstantAdd(clock, d)
    /\ stalls' = stalls + 1
    /\ UNCHANGED <<pc, threshold_ms, start_time, elapsed_time, result, output,
                   runs, prev>>

\* The program is started again, as a fresh process with its own threshold.
Rerun ==
    /\ pc = "done"
    /\ runs < MaxRuns
    /\ runs' = runs + 1
    /\ threshold_ms' \in Thresholds
    /\ clock' \in StartInstants
    /\ pc' = "main"
    /\ start_time' = <<>>
    /\ elapsed_time' = <<>>
    /\ result' = <<>>
    /\ output' = <<>>
    /\ stalls' = 0
    /\ prev' = <<ThisCall>>

Step == MainCall \/ ProbeStart \/ Sleep \/ ReadElapsed \/ Compare \/ MainPrint

Next ==
    \/ MainCall
    \/ ProbeStart
    \/ Sleep
    \/ ReadElapsed
    \/ Compare
    \/ MainPrint
    \/ Stall
    \/ Rerun

Spec == Init /\ [][Next]_vars

\* The thread is scheduled: a statement that can run eventually runs.
FairSpec == Spec /\ WF_vars(Step)

----------------------------------------------------------------------------
(* Vocabulary of the properties *)

\* the probe has returned to main
ProbeReturned == pc \in {"returned", "done"}

\* positions of the lines of `out` printed with format string of `line`
LinesLike(out, line) == {i \in DOMAIN out : out[i].text = line.text}

IsWarning(l) == l.text = WarningLine(0).text

IsVerdict(l) == l \in {DetectedLine, NotDetectedLine}

\* the lines printed from within the probe: everything but main's verdict
ProbeOutput == IF pc = "done" THEN SubSeq(output, 1, Len(output) - 1) ELSE output

\* position of a control point in the straight-line program
Rank(p) ==
    CASE p = "main"     -> 0
      [] p = "probe"    -> 1
      [] p = "sleeping" -> 2
      [] p = "woke"     -> 3
      [] p = "compare"  -> 4
      [] p = "returned" -> 5
      [] p = "done"     -> 6

----------------------------------------------------------------------------
\* C1: for every threshold T and measured elapsed time E, the probe returns
\* true if and only if E > T; with E = T it returns false.
C1_StrictComparison ==
    ProbeReturned =>
        /\ (result[1] = TRUE) <=> (elapsed_time[1] > threshold_ms)
        /\ (elapsed_time[1] = threshold_ms) => (result[1] = FALSE)

C1_Witness ==
    /\ pc = "returned"
    /\ elapsed_time[1] = threshold_ms
    /\ result = <<FALSE>>

\* C2: with a threshold below the 10 ms delay every call returns true and
\* prints the warning, whatever elapsed time the clock measures.
C2_BelowDelayDetects ==
    (ProbeReturned /\ SleepMs > threshold_ms) =>
        /\ result = <<TRUE>>
        /\ ProbeOutput = <<WarningLine(elapsed_time[1])>>

C2_Witness ==
    /\ pc = "returned"
    /\ SleepMs > threshold_ms
    /\ elapsed_time[1] > MainThresholdMs
    /\ result = <<TRUE>>
    /\ Len(output) = 1

\* C3 as stated: with a threshold at or above the 10 ms delay every call
\* returns false and prints nothing from within the probe.
C3_AtOrAboveDelayNeverDetects ==
    (ProbeReturned /\ SleepMs <= threshold_ms) =>
        /\ result = <<FALSE>>
        /\ ProbeOutput = <<>>

\* C3 amended: with a threshold T at or above the 10 ms delay, a call
\* returns false and prints nothing from within the probe exactly when the
\* measured elapsed time is at most T; when the measurement exceeds T it
\* returns true and prints the warning.
C3_AtOrAboveDelayFollowsMeasurement ==
    (ProbeReturned /\ SleepMs <= threshold_ms) =>
        IF elapsed_time[1] <= threshold_ms
        THEN result = <<FALSE>> /\ ProbeOutput = <<>>
        ELSE result = <<TRUE>> /\ ProbeOutput = <<WarningLine(elapsed_time[1])>>

C3_Witness ==
    /\ pc = "returned"
    /\ threshold_ms = SleepMs + 1
    /\ elapsed_time[1] = SleepMs
    /\ result = <<FALSE>>
    /\ output = <<>>

\* C4 as stated: with threshold 5000 ms the probe returns false and the
\* program's output is the single line "No debugging detected.".
C4_MainConfigurationAlwaysClean ==
    (pc = "done" /\ threshold_ms = MainThresholdMs) =>
        /\ result = <<FALSE>>
        /\ output = <<NotDetectedLine>>

\* C4 amended: with threshold 5000 ms, whenever the measured elapsed time is
\* at most 5000 ms the probe returns false and the program's output is the
\* single line "No debugging detected.".
C4_MainConfigurationCleanUnlessSlow ==
    (pc = "done" /\ threshold_ms = MainThresholdMs
                 /\ elapsed_time[1] <= MainThresholdMs) =>
        /\ result = <<FALSE>>
        /\ output = <<NotDetectedLine>>

C4_Witness ==
    /\ pc = "done"
    /\ threshold_ms = MainThresholdMs
    /\ elapsed_time[1] = SleepMs
    /\ stalls = 0
    /\ output = <<NotDetectedLine>>

\* C5: with threshold 5 ms the probe returns true and the program prints
\* exactly two lines, the elapsed-time warning and then "Debugging
\* detected!"; the warning never comes after the verdict line.
C5_WarningThenVerdict ==
    (threshold_ms = 5) =>
        /\ ~ProbeReturned => output = <<>>
        /\ pc = "returned" =>
              /\ result = <<TRUE>>
              /\ output = <<WarningLine(elapsed_time[1])>>
        /\ pc = "done" =>
              /\ result = <<TRUE>>
              /\ output = <<WarningLine(elapsed_time[1]), DetectedLine>>

C5_Witness ==
    /\ pc = "done"
    /\ threshold_ms = 5
    /\ Len(output) = 2
    /\ IsWarning(output[1])
    /\ output[2] = DetectedLine

\* C6: the elapsed time the probe measures, and the value it prints in its
\* warning, is at least the 10 ms delay; between the end of the sleep and
\* the reading of the clock at least the delay has passed since start_time.
C6_ElapsedAtLeastDelay ==
    /\ elapsed_time # <<>> => elapsed_time[1] >= SleepMs
    /\ \A i \in DOMAIN output :
          IsWarning(output[i]) =>
              /\ output[i].args[1] >= SleepMs
              /\ output[i].args = elapsed_time
    /\ pc = "woke" => as_millis(DurationSince(clock, start_time[1])) >= SleepMs

C6_Witness ==
    /\ ProbeReturned
    /\ Len(output) >= 1
    /\ output[1] = WarningLine(SleepMs)
    /\ start_time[1].nanos > clock.nanos

\* C7: the probe prints its warning exactly when it returns true: a call
\* that returns true has printed the warning exactly once before returning,
\* a call that returns false has printed nothing.
C7_WarningIffTrue ==
    /\ ProbeReturned =>
          /\ result[1] = TRUE =>
                /\ ProbeOutput = <<WarningLine(elapsed_time[1])>>
                /\ Cardinality(LinesLike(output, WarningLine(0))) = 1
          /\ result[1] = FALSE =>
                /\ ProbeOutput = <<>>
                /\ LinesLike(output, WarningLine(0)) = {}
    /\ ~ProbeReturned => output = <<>>

C7_Witness ==
    /\ pc = "returned"
    /\ result = <<FALSE>>
    /\ output = <<>>
    /\ prev # <<>>
    /\ prev[1].verdict = TRUE
    /\ Len(prev[1].printed) = 1

\* C8: every run prints exactly one verdict line, "Debugging detected!" iff
\* the probe returned true and "No debugging detected." iff it returned
\* false; never both, and the verdict line is the last line of the output.
C8_OneVerdictLineLast ==
    /\ pc = "done" =>
          /\ Len(output) >= 1
          /\ (output[Len(output)] = DetectedLine) <=> (result[1] = TRUE)
          /\ (output[Len(output)] = NotDetectedLine) <=> (result[1] = FALSE)
          /\ {i \in DOMAIN output : IsVerdict(output[i])} = {Len(output)}
    /\ pc # "done" => \A i \in DOMAIN output : ~IsVerdict(output[i])

C8_Witness ==
    /\ pc = "done"
    /\ output[Len(output)] = DetectedLine
    /\ prev # <<>>
    /\ prev[1].verdict = FALSE

\* C9: the probe cannot fail: under a scheduled thread every call ends with
\* a boolean verdict and every run ends after printing a verdict line;
\* control only moves forward, there is no retry or loop.
C9_Terminates ==
    /\ (pc # "done") ~>
          (/\ pc = "done"
           /\ result \in {<<TRUE>>, <<FALSE>>}
           /\ IsVerdict(output[Len(output)]))
    /\ [][ pc' # pc => (Rank(pc') = Rank(pc) + 1 \/ (pc = "done" /\ pc' = "main")) ]_vars

C9_Witness ==
    /\ pc = "done"
    /\ runs = MaxRuns
    /\ stalls > 0
    /\ result = <<FALSE>>

\* C10: for the same measured elapsed time the verdict is monotone in the
\* threshold (false at T stays false at every T' >= T, true at T stays true
\* at every T' <= T), and two calls with equal elapsed time and equal
\* threshold give the same verdict and the same output.
C10_MonotoneInThreshold ==
    (pc = "done" /\ prev # <<>>) =>
        LET a == prev[1]
            b == ThisCall
        IN  a.elapsed = b.elapsed =>
              /\ a.threshold <= b.threshold => (b.verdict => a.verdict)
              /\ b.threshold <= a.threshold => (a.verdict => b.verdict)
              /\ a.threshold = b.threshold =>
                    (a.verdict = b.verdict /\ a.printed = b.printed)

C10_Witness ==
    /\ pc = "done"
    /\ prev # <<>>
    /\ prev[1].elapsed = elapsed_time[1]
    /\ prev[1].threshold < threshold_ms
    /\ prev[1].verdict = TRUE
    /\ result = <<FALSE>>

====
